---- MODULE Spec2Model ----
(***************************************************************************)
(* Embedded-object protocol layer of PowerBI-JavaScript: the Page remote   *)
(* operations (src/src/page.ts), and the Report / Tile load directives and *)
(* embed URLs (src/src/report.ts, src/src/tile.ts).                        *)
(*                                                                         *)
(* JavaScript values whose runtime type matters are tagged records         *)
(* [t |-> <typeof>, v |-> <text>], so that `typeof x` is x.t.              *)
(***************************************************************************)
EXTENDS Integers, Sequences, FiniteSets, TLC

VARIABLES
    report,        \* the Report nodes a Page borrows: config and iframe
    pages,         \* the Page objects and their fields
    calls,         \* one record per invocation of a Page operation: its promise
    hpm,           \* requests handed to report.service.hpm, in order
    embed,         \* held state of the Report / Tile embeds (options, embedUrl)
    loads,         \* one record per invocation of Report.load / Tile.load
    baseLoads,     \* invocations of the base load (super.load), in order
    urls           \* values returned by getEmbedUrl, in order

vars == <<report, pages, calls, hpm, embed, loads, baseLoads, urls>>

(***************************************************************************)
(* Bounds                                                                  *)
(***************************************************************************)
MaxCalls == 2      \* Page operation invocations per behaviour
MaxLoads == 2      \* load invocations per behaviour
MaxUrlCalls == 2   \* getEmbedUrl invocations per behaviour

(***************************************************************************)
(* JavaScript values                                                       *)
(***************************************************************************)
JsString(s) == [t |-> "string", v |-> s]
JsUndefined == [t |-> "undefined", v |-> "undefined"]
JsNull == [t |-> "object", v |-> "null"]
JsNumber(s) == [t |-> "number", v |-> s]
JsTrue == [t |-> "boolean", v |-> "true"]
JsFalse == [t |-> "boolean", v |-> "false"]

typeof(x) == x.t

\* !x of JavaScript
Falsy(x) ==
    \/ x.t = "undefined"
    \/ x = JsNull
    \/ x = JsFalse
    \/ x = JsString("")
    \/ x = JsNumber("0")

\* s.indexOf(t) >= 0
Contains(s, t) ==
    \E i \in 1..(Len(s) - Len(t) + 1) : SubSeq(s, i, i + Len(t) - 1) = t

(***************************************************************************)
(* Collaborators of Page: the owning report, the errors and util modules   *)
(***************************************************************************)
ReportIds == {"r1", "r2"}
PageIds == {"p1", "p2"}

PlainEmbedUrl == "https://app.powerbi.com/reportEmbed?reportId=1"
RdlEmbedUrl == "https://app.powerbi.com/rdlEmbed?reportId=1"

\* errors.APINotSupportedForRDLError: one fixed value of the errors module
APINotSupportedForRDLError == "This API is currently not supported for RDL reports"

\* utils.isRDLEmbed: the restricted-legacy-format predicate over the embed URL
isRDLEmbed(embedUrl) == Contains(embedUrl, "/rdlEmbed?")

\* models.LayoutType[layoutType]: the enum's lookup, name to number
LayoutType(layoutType) ==
    CASE layoutType = "Master" -> "0"
      [] layoutType = "Custom" -> "1"
      [] layoutType = "MobilePortrait" -> "2"
      [] layoutType = "MobileLandscape" -> "3"

LayoutTypes == {"Master", "MobilePortrait"}

(***************************************************************************)
(* Page                                                                    *)
(***************************************************************************)
\* new Page(report, name, displayName, isActivePage, visibility, defaultSize,
\*          defaultDisplayOption)
Page(rep, name, displayName, isActivePage, visibility, defaultSize, defaultDisplayOption) ==
    [report |-> rep,
     name |-> name,
     displayName |-> displayName,
     isActive |-> isActivePage,
     visibility |-> visibility,
     defaultSize |-> defaultSize,
     defaultDisplayOption |-> defaultDisplayOption]

\* { uid: this.report.config.uniqueId }
Uid(p) == [uid |-> report[pages[p].report].config.uniqueId]

\* this.report.iframe.contentWindow
Target(p) == report[pages[p].report].iframe.contentWindow

\* hpm.get(url, headers, targetWindow)
HpmGet(url, headers, targetWindow) ==
    [method |-> "GET", url |-> url, body |-> JsUndefined,
     headers |-> headers, target |-> targetWindow]

\* hpm.put(url, body, headers, targetWindow)
HpmPut(url, body, headers, targetWindow) ==
    [method |-> "PUT", url |-> url, body |-> body,
     headers |-> headers, target |-> targetWindow]

\* hpm.delete(url, body, headers, targetWindow)
HpmDelete(url, body, headers, targetWindow) ==
    [method |-> "DELETE", url |-> url, body |-> body,
     headers |-> headers, target |-> targetWindow]

\* The outcomes of an async method
Fulfilled(value) == [state |-> "fulfilled", value |-> value]
Rejected(value) == [state |-> "rejected", value |-> value]

Pending == [state |-> "pending", value |-> "none"]

\* The synchronous part of each operation, up to its first await: the
\* requests it hands to hpm and the state its promise is left in.
Awaiting(request) == [requests |-> <<request>>, promise |-> Pending]

getFiltersStart(p) ==
    Awaiting(HpmGet("/report/pages/" \o pages[p].name \o "/filters", Uid(p), Target(p)))

\* Variant: the scoping context reads a property the config does not have
deleteStart_NoUid(p) ==
    Awaiting(HpmDelete("/report/pages/" \o pages[p].name, <<>>,
                       [uid |-> JsUndefined], Target(p)))

deleteStart(p) ==
    Awaiting(HpmDelete("/report/pages/" \o pages[p].name, <<>>, Uid(p), Target(p)))

setFiltersStart(p, filters) ==
    Awaiting(HpmPut("/report/pages/" \o pages[p].name \o "/filters", filters,
                    Uid(p), Target(p)))

removeFiltersStart(p) == setFiltersStart(p, <<>>)

\* Variant: the payload is built from the page's own fields
setActiveStart_OwnFields(p) ==
    LET page == [name |-> pages[p].name, displayName |-> pages[p].displayName,
                 isActive |-> pages[p].isActive]
    IN  Awaiting(HpmPut("/report/pages/active", page, Uid(p), Target(p)))

setActiveStart(p) ==
    LET page == [name |-> pages[p].name, displayName |-> JsNull, isActive |-> JsTrue]
    IN  Awaiting(HpmPut("/report/pages/active", page, Uid(p), Target(p)))

setDisplayNameStart(p, displayName) ==
    LET page == [name |-> pages[p].name, displayName |-> displayName]
    IN  Awaiting(HpmPut("/report/pages/" \o pages[p].name \o "/name", page,
                        Uid(p), Target(p)))

getVisualsStart(p) ==
    IF isRDLEmbed(report[pages[p].report].config.embedUrl)
    THEN [requests |-> <<>>, promise |-> Rejected(APINotSupportedForRDLError)]
    ELSE Awaiting(HpmGet("/report/pages/" \o pages[p].name \o "/visuals",
                         Uid(p), Target(p)))

\* Variant: the RDL check is missing
hasLayoutStart_NoGate(p, layoutType) ==
    LET layoutTypeEnum == LayoutType(layoutType)
    IN  Awaiting(HpmGet("/report/pages/" \o pages[p].name \o "/layoutTypes/"
                           \o layoutTypeEnum, Uid(p), Target(p)))

hasLayoutStart(p, layoutType) ==
    IF isRDLEmbed(report[pages[p].report].config.embedUrl)
    THEN [requests |-> <<>>, promise |-> Rejected(APINotSupportedForRDLError)]
    ELSE LET layoutTypeEnum == LayoutType(layoutType)
         IN  Awaiting(HpmGet("/report/pages/" \o pages[p].name \o "/layoutTypes/"
                                \o layoutTypeEnum, Uid(p), Target(p)))

\* The part of each operation after its await.  response is what the channel
\* delivered: [ok |-> TRUE, envelope |-> e] when the request's promise
\* resolved with e, [ok |-> FALSE, envelope |-> e] when it rejected with e.
\* Variant: the catch clause returns the body instead of throwing it
getFiltersSettle_Swallow(p, response) ==
    IF response.ok THEN Fulfilled(response.envelope.body)
                   ELSE Fulfilled(response.envelope.body)

getFiltersSettle(p, response) ==
    IF response.ok THEN Fulfilled(response.envelope.body)
                   ELSE Rejected(response.envelope.body)

deleteSettle(p, response) ==
    IF response.ok THEN Fulfilled(response.envelope.body)
                   ELSE Rejected(response.envelope.body)

\* Variant: the catch clause rethrows the response instead of its body
setFiltersSettle_ThrowsEnvelope(p, response) ==
    IF response.ok THEN Fulfilled(response.envelope)
                   ELSE Rejected(response.envelope)

setFiltersSettle(p, response) ==
    IF response.ok THEN Fulfilled(response.envelope)
                   ELSE Rejected(response.envelope.body)

\* return await this.setFilters([]): the outcome of setFilters, passed through
removeFiltersSettle(p, response) == setFiltersSettle(p, response)

setActiveSettle(p, response) ==
    IF response.ok THEN Fulfilled(response.envelope)
                   ELSE Rejected(response.envelope.body)

setDisplayNameSettle(p, response) ==
    IF response.ok THEN Fulfilled(response.envelope)
                   ELSE Rejected(response.envelope.body)

\* new VisualDescriptor(this, visual.name, visual.title, visual.type, visual.layout)
VisualDescriptor(p, name, title, type, layout) ==
    [page |-> p, name |-> name, title |-> title, type |-> type, layout |-> layout]

\* The body of a resolved visuals request is an IVisual[]; mapping it does
\* not throw, so the catch clause is entered by a rejected request only.
getVisualsSettle(p, response) ==
    IF response.ok
    THEN Fulfilled([i \in DOMAIN response.envelope.body |->
                      LET visual == response.envelope.body[i]
                      IN  VisualDescriptor(p, visual.name, visual.title,
                                           visual.type, visual.layout)])
    ELSE Rejected(response.envelope.body)

hasLayoutSettle(p, response) ==
    IF response.ok THEN Fulfilled(response.envelope.body)
                   ELSE Rejected(response.envelope.body)

\* Variant: a successful setActive records the page as active
PageAfter_Bookkeeping(op, p, promise) ==
    IF op = "setActive" /\ promise.state = "fulfilled"
    THEN [pages[p] EXCEPT !.isActive = JsTrue]
    ELSE pages[p]

\* The fields of a Page once an operation has settled: no operation assigns
\* to a field of this, on either path.
PageAfter(op, p, promise) == pages[p]

Settle(op, p, response) ==
    CASE op = "getFilters" -> getFiltersSettle(p, response)
      [] op = "delete" -> deleteSettle(p, response)
      [] op = "setFilters" -> setFiltersSettle(p, response)
      [] op = "removeFilters" -> removeFiltersSettle(p, response)
      [] op = "setActive" -> setActiveSettle(p, response)
      [] op = "setDisplayName" -> setDisplayNameSettle(p, response)
      [] op = "getVisuals" -> getVisualsSettle(p, response)
      [] op = "hasLayout" -> hasLayoutSettle(p, response)

(***************************************************************************)
(* The channel: what report.service.hpm may deliver for a request          *)
(***************************************************************************)
Filter1 == [target |-> "Store/Chain", operator |-> "In"]
FilterLists == {<<>>, <<Filter1>>}

Visual1 == [name |-> "VisualContainer1", title |-> "Sales", type |-> "barChart",
            layout |-> "x0y0"]
VisualLists == {<<>>, <<Visual1>>}

DisplayNames == {JsString("Summary")}

\* Bodies of a resolved request, by the type parameter of the hpm call
ResponseBodies(op) ==
    CASE op = "getFilters" -> FilterLists
      [] op = "getVisuals" -> VisualLists
      [] op = "hasLayout" -> {JsTrue, JsFalse}
      [] OTHER -> {JsUndefined}

\* Bodies of a rejected request
Errors == {[message |-> "Page not found"], [message |-> "Invalid filter"]}

Resolution(body) == [ok |-> TRUE, envelope |-> [statusCode |-> 200, body |-> body]]
Rejection(error) == [ok |-> FALSE, envelope |-> [statusCode |-> 400, body |-> error]]

(***************************************************************************)
(* Actions of the Page operations                                          *)
(***************************************************************************)
EmbedUnchanged == UNCHANGED <<embed, loads, baseLoads, urls>>

\* A call of operation op on page p: its synchronous part runs
Invoke(op, p, arg, start) ==
    /\ Len(calls) < MaxCalls
    /\ calls' = Append(calls, [op |-> op, page |-> p, arg |-> arg,
                               response |-> <<>>,
                               state |-> start.promise.state,
                               value |-> start.promise.value])
    /\ hpm' = hpm \o [i \in DOMAIN start.requests |->
                        [call |-> Len(calls) + 1, request |-> start.requests[i]]]
    /\ pages' = IF start.promise.state = "pending"
                THEN pages
                ELSE [pages EXCEPT ![p] = PageAfter(op, p, start.promise)]
    /\ UNCHANGED report
    /\ EmbedUnchanged

Page_getFilters(p) == Invoke("getFilters", p, "none", getFiltersStart(p))

Page_delete(p) == Invoke("delete", p, "none", deleteStart(p))

Page_removeFilters(p) == Invoke("removeFilters", p, "none", removeFiltersStart(p))

Page_setActive(p) == Invoke("setActive", p, "none", setActiveStart(p))

Page_setFilters(p) ==
    \E filters \in FilterLists \ {<<>>} :
        Invoke("setFilters", p, filters, setFiltersStart(p, filters))

Page_setDisplayName(p) ==
    \E displayName \in DisplayNames :
        Invoke("setDisplayName", p, displayName, setDisplayNameStart(p, displayName))

Page_getVisuals(p) == Invoke("getVisuals", p, "none", getVisualsStart(p))

Page_hasLayout(p) ==
    \E layoutType \in LayoutTypes :
        Invoke("hasLayout", p, layoutType, hasLayoutStart(p, layoutType))

\* The channel settles the request of call i and the operation resumes
Resume(i, response) ==
    LET c == calls[i]
        promise == Settle(c.op, c.page, response)
    IN  /\ calls' = [calls EXCEPT ![i] = [c EXCEPT !.response = <<response>>,
                                                   !.state = promise.state,
                                                   !.value = promise.value]]
        /\ pages' = [pages EXCEPT ![c.page] = PageAfter(c.op, c.page, promise)]
        /\ UNCHANGED <<report, hpm>>
        /\ EmbedUnchanged

ChannelResolves(i) ==
    /\ calls[i].state = "pending"
    /\ \E body \in ResponseBodies(calls[i].op) : Resume(i, Resolution(body))

ChannelRejects(i) ==
    /\ calls[i].state = "pending"
    /\ \E error \in Errors : Resume(i, Rejection(error))

\* The reports and pages as constructed
ReportNode(uniqueId, embedUrl, contentWindow) ==
    [config |-> [uniqueId |-> uniqueId, embedUrl |-> embedUrl],
     iframe |-> [contentWindow |-> contentWindow]]

\* An embed as constructed: the options and the embed URL it holds
Embed(filterPaneEnabled, embedUrl) ==
    [options |-> [filterPaneEnabled |-> filterPaneEnabled], embedUrl |-> embedUrl]

EmbedIds == {"report", "tile"}

NoEmbeds == [e \in EmbedIds |-> Embed(JsUndefined, PlainEmbedUrl)]

\* The Page objects of the model: p1 belongs to report r1 and p2 to r2
Pages(displayName1, isActive1) ==
    [p \in PageIds |->
       IF p = "p1"
       THEN Page("r1", "ReportSection1", displayName1, isActive1,
                 "AlwaysVisible", "16x9", "FitToPage")
       ELSE Page("r2", "ReportSection2", JsUndefined, JsFalse,
                 "HiddenInViewMode", "4x3", "ActualSize")]

\* The reports of the model: r1 is a regular embed, r2 an RDL embed
Reports ==
    [r \in ReportIds |->
       IF r = "r1" THEN ReportNode(JsString("uid-1"), PlainEmbedUrl, "window-1")
                   ELSE ReportNode(JsString("uid-2"), RdlEmbedUrl, "window-2")]

InitPage ==
    /\ report = Reports
    /\ \E displayName1 \in {JsUndefined, JsString("Overview")} :
       \E isActive1 \in {JsTrue, JsFalse} :
          pages = Pages(displayName1, isActive1)
    /\ calls = <<>>
    /\ hpm = <<>>
    /\ embed = NoEmbeds
    /\ loads = <<>>
    /\ baseLoads = <<>>
    /\ urls = <<>>

NextPage ==
    \/ \E p \in PageIds : Page_getFilters(p)
    \/ \E p \in PageIds : Page_delete(p)
    \/ \E p \in PageIds : Page_removeFilters(p)
    \/ \E p \in PageIds : Page_setActive(p)
    \/ \E p \in PageIds : Page_setFilters(p)
    \/ \E p \in PageIds : Page_setDisplayName(p)
    \/ \E p \in PageIds : Page_getVisuals(p)
    \/ \E p \in PageIds : Page_hasLayout(p)
    \/ \E i \in DOMAIN calls : ChannelResolves(i)
    \/ \E i \in DOMAIN calls : ChannelRejects(i)

SpecPage == InitPage /\ [][NextPage]_vars

(***************************************************************************)
(* Report and Tile: getEmbedUrl                                            *)
(***************************************************************************)
\* Embed.getEmbedUrl (super.getEmbedUrl()): the configured embed URL
Embed_getEmbedUrl(this) == this.embedUrl

\* Variant: the parameter is appended whatever the option says
Report_getEmbedUrl_Always(this) ==
    LET embedUrl == Embed_getEmbedUrl(this)
    IN  embedUrl \o "&filterPaneEnabled=false"

Report_getEmbedUrl(this) ==
    LET embedUrl == Embed_getEmbedUrl(this)
    IN  IF Falsy(this.options.filterPaneEnabled)
        THEN embedUrl \o "&filterPaneEnabled=false"
        ELSE embedUrl

Tile_getEmbedUrl(this) ==
    LET embedUrl == Embed_getEmbedUrl(this)
    IN  embedUrl

PageUnchanged == UNCHANGED <<report, pages, calls, hpm>>

ReportGetEmbedUrl ==
    /\ Len(urls) < MaxUrlCalls
    /\ urls' = Append(urls, [of |-> "report", value |-> Report_getEmbedUrl(embed["report"])])
    /\ UNCHANGED <<embed, loads, baseLoads>>
    /\ PageUnchanged

TileGetEmbedUrl ==
    /\ Len(urls) < MaxUrlCalls
    /\ urls' = Append(urls, [of |-> "tile", value |-> Tile_getEmbedUrl(embed["tile"])])
    /\ UNCHANGED <<embed, loads, baseLoads>>
    /\ PageUnchanged

BaseUrls == {PlainEmbedUrl,
             "https://app.powerbi.com/reportEmbed",
             "https://app.powerbi.com/reportEmbed?reportId=1&filterPaneEnabled=false"}

FilterPaneSettings == {JsTrue, JsFalse, JsUndefined}

InitQuiet ==
    /\ report = Reports
    /\ pages = Pages(JsString("Overview"), JsTrue)
    /\ calls = <<>>
    /\ hpm = <<>>
    /\ loads = <<>>
    /\ baseLoads = <<>>
    /\ urls = <<>>

InitUrl ==
    /\ InitQuiet
    /\ \E f1, f2 \in FilterPaneSettings :
       \E u1, u2 \in BaseUrls :
          embed = [e \in EmbedIds |->
                     IF e = "report" THEN Embed(f1, u1) ELSE Embed(f2, u2)]

NextUrl ==
    \/ ReportGetEmbedUrl
    \/ TileGetEmbedUrl

SpecUrl == InitUrl /\ [][NextUrl]_vars

(***************************************************************************)
(* Report and Tile: load                                                   *)
(***************************************************************************)
IdError == "id must be specified when loading reports on existing elements."

\* requireId: boolean = false
DefaultFalse(requireId) == IF requireId = JsUndefined THEN JsFalse ELSE requireId

\* What one call of load does: it throws, or it hands its message to the
\* base load together with the caller's options and requireId.
Threw(error) == [threw |-> TRUE, error |-> error, super |-> <<>>]
SuperLoad(options, requireId, message) ==
    [threw |-> FALSE, error |-> "none",
     super |-> <<[options |-> options, requireId |-> requireId, message |-> message]>>]

\* Variant: the id check is missing
Report_load_NoIdCheck(options, requireIdArg) ==
    LET requireId == DefaultFalse(requireIdArg)
        message == [action |-> "loadReport",
                    reportId |-> options.id,
                    accessToken |-> JsNull]
    IN  SuperLoad(options, requireId, message)

Report_load(options, requireIdArg) ==
    LET requireId == DefaultFalse(requireIdArg)
    IN  IF ~Falsy(requireId) /\ typeof(options.id) # "string"
        THEN Threw(IdError)
        ELSE LET message == [action |-> "loadReport",
                             reportId |-> options.id,
                             accessToken |-> JsNull]
             IN  SuperLoad(options, requireId, message)

\* Variant: the message takes the caller's accessToken
Tile_load_CallerToken(options, requireIdArg) ==
    LET requireId == DefaultFalse(requireIdArg)
    IN  IF ~Falsy(requireId) /\ typeof(options.id) # "string"
        THEN Threw(IdError)
        ELSE LET message == [action |-> "loadTile",
                             tileId |-> options.id,
                             accessToken |-> options.accessToken]
             IN  SuperLoad(options, requireId, message)

\* Variant: the id check is !options.id
Tile_load_TruthyId(options, requireIdArg) ==
    LET requireId == DefaultFalse(requireIdArg)
    IN  IF ~Falsy(requireId) /\ Falsy(options.id)
        THEN Threw(IdError)
        ELSE LET message == [action |-> "loadTile",
                             tileId |-> options.id,
                             accessToken |-> JsNull]
             IN  SuperLoad(options, requireId, message)

Tile_load(options, requireIdArg) ==
    LET requireId == DefaultFalse(requireIdArg)
    IN  IF ~Falsy(requireId) /\ typeof(options.id) # "string"
        THEN Threw(IdError)
        ELSE LET message == [action |-> "loadTile",
                             tileId |-> options.id,
                             accessToken |-> JsNull]
             IN  SuperLoad(options, requireId, message)

\* The options a caller may pass
Ids == {JsUndefined, JsNull, JsNumber("42"), JsString(""), JsString("abc")}
Extras == {[action |-> JsUndefined, accessToken |-> JsUndefined],
           [action |-> JsString("loadDashboard"), accessToken |-> JsString("token")]}
LoadOptions == {[id |-> id, action |-> x.action, accessToken |-> x.accessToken] :
                  id \in Ids, x \in Extras}
RequireIds == {JsTrue, JsFalse, JsUndefined}

Load(of, options, requireId, result) ==
    /\ Len(loads) < MaxLoads
    /\ loads' = Append(loads, [of |-> of, options |-> options, requireId |-> requireId,
                               threw |-> result.threw, error |-> result.error])
    /\ baseLoads' = baseLoads \o [i \in DOMAIN result.super |->
                                    [load |-> Len(loads) + 1, of |-> of,
                                     options |-> result.super[i].options,
                                     requireId |-> result.super[i].requireId,
                                     message |-> result.super[i].message]]
    /\ UNCHANGED <<embed, urls>>
    /\ PageUnchanged

ReportLoad ==
    \E options \in LoadOptions, requireId \in RequireIds :
        Load("report", options, requireId, Report_load(options, requireId))

TileLoad ==
    \E options \in LoadOptions, requireId \in RequireIds :
        Load("tile", options, requireId, Tile_load(options, requireId))

InitLoad ==
    /\ InitQuiet
    /\ embed = NoEmbeds

NextLoad ==
    \/ ReportLoad
    \/ TileLoad

SpecLoad == InitLoad /\ [][NextLoad]_vars

(***************************************************************************)
(* Properties                                                              *)
(***************************************************************************)
\* The requests that call i of a Page operation handed to hpm
RequestsOf(i) == {k \in DOMAIN hpm : hpm[k].call = i}

\* The invocations of the base load made by load call i
BaseLoadsOf(i) == {k \in DOMAIN baseLoads : baseLoads[k].load = i}

\* Call c was short-circuited by the capability gate
Gated(c) ==
    /\ c.op \in {"getVisuals", "hasLayout"}
    /\ isRDLEmbed(report[pages[c.page].report].config.embedUrl)

\* C1: for Report.load and Tile.load alike, a call with requireId true and an
\* options.id that is not a string throws the id error and makes no call of
\* the base load.
C1_LoadFailsBeforeDispatch ==
    \A i \in DOMAIN loads :
        (loads[i].requireId = JsTrue /\ typeof(loads[i].options.id) # "string")
            => /\ loads[i].threw
               /\ loads[i].error = IdError
               /\ BaseLoadsOf(i) = {}

C1_Witness ==
    /\ \E i \in DOMAIN loads :
          /\ loads[i].of = "report"
          /\ loads[i].requireId = JsTrue
          /\ loads[i].options.id = JsNumber("42")
          /\ loads[i].threw
    /\ \E i \in DOMAIN loads :
          /\ loads[i].of = "tile"
          /\ loads[i].requireId = JsTrue
          /\ loads[i].options.id = JsUndefined
          /\ loads[i].threw

\* C2: getVisuals and hasLayout on a report whose embed URL is an RDL embed
\* reject with APINotSupportedForRDLError itself and hand no request to hpm;
\* on any other report they hand exactly one GET request to hpm and their
\* outcome is the one the channel's response decides.
C2_RdlGate ==
    \A i \in DOMAIN calls :
        LET c == calls[i]
        IN  c.op \in {"getVisuals", "hasLayout"} =>
              IF isRDLEmbed(report[pages[c.page].report].config.embedUrl)
              THEN /\ c.state = "rejected"
                   /\ c.value = APINotSupportedForRDLError
                   /\ c.response = <<>>
                   /\ RequestsOf(i) = {}
              ELSE /\ Cardinality(RequestsOf(i)) = 1
                   /\ \A k \in RequestsOf(i) : hpm[k].request.method = "GET"
                   /\ (c.state = "pending") <=> (c.response = <<>>)
                   /\ c.response # <<>> =>
                        IF c.response[1].ok
                        THEN c.state = "fulfilled"
                        ELSE /\ c.state = "rejected"
                             /\ c.value = c.response[1].envelope.body

C2_Witness ==
    /\ \E i \in DOMAIN calls :
          /\ calls[i].op = "getVisuals"
          /\ Gated(calls[i])
          /\ calls[i].state = "rejected"
    /\ \E i \in DOMAIN calls :
          /\ calls[i].op = "hasLayout"
          /\ ~Gated(calls[i])
          /\ calls[i].state = "fulfilled"

\* C3: whenever the channel rejects the request of a Page operation with an
\* envelope whose body is E, the operation's promise is rejected with E, for
\* every operation, removeFilters included.
C3_RejectsWithBody ==
    \A i \in DOMAIN calls :
        LET c == calls[i]
        IN  (c.response # <<>> /\ ~c.response[1].ok)
              => /\ c.state = "rejected"
                 /\ c.value = c.response[1].envelope.body
                 /\ c.value \in Errors

C3_Witness ==
    \E i, j \in DOMAIN calls :
        /\ calls[i].op = "removeFilters"
        /\ calls[i].state = "rejected"
        /\ calls[i].value = [message |-> "Invalid filter"]
        /\ calls[j].op = "delete"
        /\ calls[j].state = "rejected"
        /\ calls[j].value = [message |-> "Page not found"]

\* The directive the load of an embed type is meant to hand over for an id
Directive(of, id) ==
    IF of = "report"
    THEN [action |-> "loadReport", reportId |-> id, accessToken |-> JsNull]
    ELSE [action |-> "loadTile", tileId |-> id, accessToken |-> JsNull]

\* C4: every load call that passes the id precondition makes exactly one call
\* of the base load, and the directive it hands over is loadReport / reportId
\* (Report) or loadTile / tileId (Tile) with the caller's id and a null
\* accessToken, whatever else the caller's options hold.
C4_ExactDirective ==
    \A i \in DOMAIN loads :
        ~(loads[i].requireId = JsTrue /\ typeof(loads[i].options.id) # "string")
            => /\ Cardinality(BaseLoadsOf(i)) = 1
               /\ \A k \in BaseLoadsOf(i) :
                     baseLoads[k].message = Directive(loads[i].of, loads[i].options.id)

C4_Witness ==
    /\ \E k \in DOMAIN baseLoads :
          /\ baseLoads[k].of = "report"
          /\ baseLoads[k].options.action = JsString("loadDashboard")
          /\ baseLoads[k].options.accessToken = JsString("token")
          /\ baseLoads[k].message =
               [action |-> "loadReport", reportId |-> JsString("abc"),
                accessToken |-> JsNull]
    /\ \E k \in DOMAIN baseLoads :
          /\ baseLoads[k].of = "tile"
          /\ baseLoads[k].options.action = JsString("loadDashboard")
          /\ baseLoads[k].message =
               [action |-> "loadTile", tileId |-> JsString("abc"),
                accessToken |-> JsNull]

\* C5 as stated: with requireId true, every id other than a non-empty string
\* (the empty string included) is rejected before the base load is called.
C5_NonEmptyIdRequired ==
    \A i \in DOMAIN loads :
        (/\ loads[i].requireId = JsTrue
         /\ ~(/\ typeof(loads[i].options.id) = "string"
              /\ loads[i].options.id # JsString("")))
            => /\ loads[i].threw
               /\ BaseLoadsOf(i) = {}

\* C5 as amended: with requireId true, a load is rejected before the base
\* load is called exactly when typeof options.id is not "string"; every
\* string id, the empty string included, is handed to the base load.
C5_StringIdRequired ==
    \A i \in DOMAIN loads :
        loads[i].requireId = JsTrue
            => /\ loads[i].threw <=> (typeof(loads[i].options.id) # "string")
               /\ Cardinality(BaseLoadsOf(i)) =
                    IF typeof(loads[i].options.id) = "string" THEN 1 ELSE 0

C5_Witness ==
    \E i \in DOMAIN loads :
        /\ loads[i].requireId = JsTrue
        /\ loads[i].options.id = JsString("")
        /\ ~loads[i].threw
        /\ \E k \in BaseLoadsOf(i) : baseLoads[k].message.action = "loadTile"

\* C6: every call of a Page operation that the capability gate lets through
\* hands exactly one request to hpm, before and after it settles, and that
\* request carries {uid: uniqueId} of the page's own report and that report's
\* iframe contentWindow.
C6_OneScopedRequest ==
    \A i \in DOMAIN calls :
        LET c == calls[i]
            owner == report[pages[c.page].report]
        IN  ~Gated(c) =>
              /\ Cardinality(RequestsOf(i)) = 1
              /\ \A k \in RequestsOf(i) :
                    /\ hpm[k].request.headers = [uid |-> owner.config.uniqueId]
                    /\ hpm[k].request.target = owner.iframe.contentWindow

C6_Witness ==
    \E i, j \in DOMAIN calls :
        /\ calls[i].op = "delete"
        /\ calls[i].state = "rejected"
        /\ \E k \in RequestsOf(i) : hpm[k].request.method = "DELETE"
        /\ calls[j].page # calls[i].page
        /\ calls[j].state = "fulfilled"
        /\ Cardinality(RequestsOf(j)) = 1

C8_SetActiveRequest ==
    \A i \in DOMAIN calls :
        calls[i].op = "setActive" =>
            /\ RequestsOf(i) # {}
            /\ \A k \in RequestsOf(i) :
                  /\ hpm[k].request.method = "PUT"
                  /\ hpm[k].request.url = "/report/pages/active"
                  /\ ~Contains(hpm[k].request.url, pages[calls[i].page].name)
                  /\ hpm[k].request.body =
                       [name |-> pages[calls[i].page].name,
                        displayName |-> JsNull,
                        isActive |-> JsTrue]

C8_Witness ==
    \E i, j \in DOMAIN calls :
        /\ calls[i].op = "setActive"
        /\ pages[calls[i].page].isActive = JsTrue
        /\ pages[calls[i].page].displayName = JsString("Overview")
        /\ calls[j].op = "setActive"
        /\ pages[calls[j].page].isActive = JsFalse
        /\ pages[calls[j].page].displayName = JsUndefined
        /\ RequestsOf(i) # {}
        /\ RequestsOf(j) # {}

\* The number of places at which t occurs in s
Occurrences(s, t) ==
    Cardinality({i \in 1..(Len(s) - Len(t) + 1) : SubSeq(s, i, i + Len(t) - 1) = t})

\* C9: Report.getEmbedUrl returns the held embed URL followed by one
\* "&filterPaneEnabled=false" when options.filterPaneEnabled is false or
\* undefined and the held URL itself when it is true; all calls return the
\* same value.
C9_ReportEmbedUrl ==
    LET base == embed["report"].embedUrl
        suffix == "&filterPaneEnabled=false"
    IN  /\ \A k \in DOMAIN urls :
              urls[k].of = "report" =>
                IF embed["report"].options.filterPaneEnabled \in {JsFalse, JsUndefined}
                THEN /\ urls[k].value = base \o suffix
                     /\ Occurrences(urls[k].value, suffix) = Occurrences(base, suffix) + 1
                ELSE urls[k].value = base
        /\ \A j, k \in DOMAIN urls :
              (urls[j].of = "report" /\ urls[k].of = "report")
                  => urls[j].value = urls[k].value

C9_Witness ==
    /\ embed["report"].options.filterPaneEnabled = JsUndefined
    /\ \E j, k \in DOMAIN urls :
          /\ j < k
          /\ urls[j].of = "report"
          /\ urls[k].of = "report"
          /\ urls[k].value = PlainEmbedUrl \o "&filterPaneEnabled=false"

\* C10: no step of a Page operation, neither its call nor its settling,
\* successful or failed, changes a field of any Page.
C10_PagesUnchanged == [][pages' = pages]_vars

C10_Witness ==
    \E i, j \in DOMAIN calls :
        /\ calls[i].op = "setActive"
        /\ calls[i].state = "fulfilled"
        /\ pages[calls[i].page].isActive = JsFalse
        /\ calls[j].op = "setDisplayName"
        /\ calls[j].state = "fulfilled"
        /\ pages[calls[j].page].displayName # calls[j].arg

====
